---- MODULE Spec2Model ----
(***************************************************************************)
(* Model of the blockhash perceptual hash (jaehl/blockhash).               *)
(*                                                                         *)
(* One digest computation is a state machine: an image is fixed, the       *)
(* dispatcher (or a direct call of one aggregation function) chooses an    *)
(* aggregation path, the path scans the image row by row and pixel by      *)
(* pixel while it accumulates the BITS*BITS cell values, and               *)
(* convert_to_bits thresholds the four bands and packs the digest.         *)
(***************************************************************************)
EXTENDS Integers, Naturals, Sequences, FiniteSets, TLC

(* ------------------------------------------------------------------ *)
(* Bounds of the model                                                 *)
(* ------------------------------------------------------------------ *)

\* widths and heights range over 0..MaxDim
MaxDim == 8

\* images are the patterns 0..MaxPattern (see Pattern)
MaxPattern == 5

\* the largest width and height of the images hashed a second time
MaxRerunDim == 5

(* ------------------------------------------------------------------ *)
(* Program constants                                                   *)
(* ------------------------------------------------------------------ *)

\* u8::MAX
U8_MAX == 255

\* the four instantiations of the hash: BITS = 4, 8, 12, 16
Sizes == {4, 8, 12, 16}

\* Rgba<u8>::MAX_BRIGHTNESS = u8::MAX * 3
MAX_BRIGHTNESS == U8_MAX * 3

(* ------------------------------------------------------------------ *)
(* Small arithmetic helpers                                            *)
(* ------------------------------------------------------------------ *)

Max2(a, b) == IF a >= b THEN a ELSE b

Min2(a, b) == IF a <= b THEN a ELSE b

SetMax(S) ==
    IF S = {} THEN 0
    ELSE CHOOSE e \in S : \A f \in S : f <= e

RECURSIVE Pow2(_)
Pow2(k) == IF k = 0 THEN 1 ELSE 2 * Pow2(k - 1)

Range(s) == {s[i] : i \in DOMAIN s}

(* ------------------------------------------------------------------ *)
(* Pixels and images                                                   *)
(* ------------------------------------------------------------------ *)

\* the brightness of the colour channels, whatever the alpha
BrightnessOpaque(p) == p[1] + p[2] + p[3]

\* Rgba<u8>::brightness: a pixel with alpha 0 is white, else R+G+B
Brightness(p) ==
    IF p[4] = 0 THEN MAX_BRIGHTNESS ELSE p[1] + p[2] + p[3]

\* the RGBA pixels the images of the model are painted with
Palette ==
    << <<0, 0, 0, 255>>,
       <<255, 255, 255, 255>>,
       <<100, 150, 50, 255>>,
       <<10, 20, 30, 0>> >>

\* the coefficients <<a, b, c>> of the patterns: uniform images, ramps along
\* one axis and diagonal ramps
PatternCoeffs ==
    << <<0, 0, 0>>, <<0, 0, 1>>, <<1, 1, 0>>, <<1, 2, 1>>,
       <<0, 0, 2>>, <<2, 1, 3>>, <<0, 0, 3>>, <<1, 0, 2>>,
       <<0, 1, 0>>, <<3, 1, 1>> >>

\* pattern k paints pixel (px, py) with Palette[(a*px + b*py + c) mod 4]
Pattern(k, px, py) ==
    LET abc == PatternCoeffs[(k % Len(PatternCoeffs)) + 1]
    IN  Palette[((abc[1] * px + abc[2] * py + abc[3]) % 4) + 1]

Coords(w, h) == (0 .. (w - 1)) \X (0 .. (h - 1))

Images(w, h) ==
    { [p \in Coords(w, h) |-> Pattern(k, p[1], p[2])] : k \in 0 .. MaxPattern }

\* the coordinate at which the pixel source is asked for pixel (px, py)
ReadAtTransposed(px, py) == <<py, px>>

ReadAt(px, py) == <<px, py>>

\* img.brightness(x, y)
PixelBrightness(im, px, py) == Brightness(im[ReadAt(px, py)])

\* the same image with the colour channels of its alpha-0 pixels set to rgb
Repaint(im, rgb) ==
    [p \in DOMAIN im |->
        IF im[p][4] = 0 THEN <<rgb[1], rgb[2], rgb[3], 0>> ELSE im[p]]

\* the colours the alpha-0 pixels are repainted with
RepaintColours == {<<0, 0, 0>>, <<255, 128, 1>>}

\* the w x h image of pixel p everywhere
UniformImage(w, h, p) == [c \in Coords(w, h) |-> p]

\* the coordinates of a w x h image in row-major order
RowMajor(w, h) == [k \in 1 .. (w * h) |-> <<(k - 1) % w, (k - 1) \div w>>]

(* ------------------------------------------------------------------ *)
(* Cell array                                                          *)
(* ------------------------------------------------------------------ *)

NUM_BLOCKS(n) == n * n

DIGEST_SIZE(n) == NUM_BLOCKS(n) \div 8

Cells(n) == 0 .. (NUM_BLOCKS(n) - 1)

\* let mut values = [0_u64; NUM_BLOCKS]
ZeroValues(n) == [i \in Cells(n) |-> 0]

\* the sum of the amounts of the contributions of cs numbered in K
RECURSIVE SumAmounts(_, _)
SumAmounts(cs, K) ==
    IF K = {} THEN 0
    ELSE LET k == CHOOSE j \in K : TRUE
         IN  cs[k][2] + SumAmounts(cs, K \ {k})

Indices(cs) == {cs[k][1] : k \in DOMAIN cs}

\* values[c[1]] += c[2] for every contribution c of cs
ApplyAll(v, cs) ==
    LET idxs == Indices(cs)
    IN  [i \in DOMAIN v |->
            IF i \in idxs
            THEN v[i] + SumAmounts(cs, {k \in DOMAIN cs : cs[k][1] = i})
            ELSE v[i]]

Amounts(cs) == {cs[k][2] : k \in DOMAIN cs}

(* ------------------------------------------------------------------ *)
(* blockhash: choice of the aggregation path                           *)
(* ------------------------------------------------------------------ *)

\* mutant: the larger path only when both dimensions exceed the grid
SelectPathStrict(w, h, n) ==
    IF w % n = 0 /\ h % n = 0 THEN "aligned"
    ELSE IF w > n /\ h > n THEN "larger"
    ELSE "generic"

\* mutant: the aligned path as soon as one dimension is a multiple of BITS
SelectPathEither(w, h, n) ==
    IF w % n = 0 \/ h % n = 0 THEN "aligned"
    ELSE IF w >= n /\ h >= n THEN "larger"
    ELSE "generic"

SelectPath(w, h, n) ==
    IF w % n = 0 /\ h % n = 0 THEN "aligned"
    ELSE IF w >= n /\ h >= n THEN "larger"
    ELSE "generic"

(* ------------------------------------------------------------------ *)
(* get_values_aligned                                                  *)
(* ------------------------------------------------------------------ *)

\* block_width = width / BITS, block_height = height / BITS
BlockSize(dim, n) == dim \div n

\* row prologue: block_y = y / block_height, idx_row = block_y * BITS
AlignedRow(n, h, yy) ==
    LET block_y == yy \div BlockSize(h, n)
    IN  [block_y |-> block_y, idx_row |-> block_y * n]

\* mutant: the brightness scaled by BITS instead of NUM_BLOCKS
AlignedContribsUnscaled(n, w, r, xx, b) ==
    LET block_x == xx \div (w \div n)
    IN  << <<r.idx_row + block_x, b * n>> >>

\* values[idx_row + idx_x] += brightness * NUM_BLOCKS
AlignedContribs(n, w, r, xx, b) ==
    LET block_x == xx \div BlockSize(w, n)
    IN  << <<r.idx_row + block_x, b * NUM_BLOCKS(n)>> >>

(* ------------------------------------------------------------------ *)
(* cursors shared by get_values_larger and get_values_generic          *)
(* ------------------------------------------------------------------ *)

\* block_bottom = 0, weight_top = BITS, weight_bottom = 0 before the scan
InitRow(n) ==
    [block_top |-> 0, block_bottom |-> 0, weight_top |-> n,
     weight_bottom |-> 0, idx_top |-> 0, idx_bottom |-> 0]

\* block_right = 0, weight_left = BITS, weight_right = 0 before each row
InitCol(n) ==
    [block_left |-> 0, block_right |-> 0, weight_left |-> n,
     weight_right |-> 0, idx_left |-> 0, idx_right |-> 0]

\* mutant: no redirection of the index past the grid
ClampRowNone(block, n) == block * n

\* idx_bottom: the row offset of block_bottom, 0 once it is past the grid
ClampRow(block, n) == IF block < n THEN block * n ELSE 0

\* the column of block_right, not redirected past the grid
ClampColNone(block, n) == block

\* idx_right: the column of block_right, 0 once it is past the grid
ClampCol(block, n) == IF block < n THEN block ELSE 0

(* ------------------------------------------------------------------ *)
(* get_values_larger                                                   *)
(* ------------------------------------------------------------------ *)

\* the row prologue that keeps the weight_top of the row before
LargerRowStaleWeight(n, h, yy, r) ==
    LET end_y == ((yy + 1) * n) % h
        hit == end_y < n
        bb == IF hit THEN r.block_bottom + 1 ELSE r.block_bottom
    IN  [block_top |-> r.block_bottom,
         block_bottom |-> bb,
         weight_top |-> r.weight_top,
         weight_bottom |-> IF hit THEN end_y ELSE r.weight_bottom,
         idx_top |-> r.block_bottom * n,
         idx_bottom |-> ClampRow(bb, n)]

LargerRow(n, h, yy, r) ==
    LET end_y == ((yy + 1) * n) % h
        hit == end_y < n
        bb == IF hit THEN r.block_bottom + 1 ELSE r.block_bottom
    IN  [block_top |-> r.block_bottom,
         block_bottom |-> bb,
         weight_top |-> IF hit THEN n - end_y ELSE r.weight_top,
         weight_bottom |-> IF hit THEN end_y ELSE r.weight_bottom,
         idx_top |-> r.block_bottom * n,
         idx_bottom |-> ClampRow(bb, n)]

\* mutant: the two weights of the split pixel exchanged
LargerColSwapped(n, w, xx, c) ==
    LET end_x == ((xx + 1) * n) % w
        hit == end_x < n
        br == IF hit THEN c.block_right + 1 ELSE c.block_right
    IN  [block_left |-> c.block_right,
         block_right |-> br,
         weight_left |-> IF hit THEN end_x ELSE c.weight_left,
         weight_right |-> IF hit THEN n - end_x ELSE c.weight_right,
         idx_left |-> c.block_right,
         idx_right |-> IF br < n THEN br ELSE 0]

LargerCol(n, w, xx, c) ==
    LET end_x == ((xx + 1) * n) % w
        hit == end_x < n
        br == IF hit THEN c.block_right + 1 ELSE c.block_right
    IN  [block_left |-> c.block_right,
         block_right |-> br,
         weight_left |-> IF hit THEN n - end_x ELSE c.weight_left,
         weight_right |-> IF hit THEN end_x ELSE c.weight_right,
         idx_left |-> c.block_right,
         idx_right |-> ClampCol(br, n)]

\* the four corner contributions of one pixel
CornerContribs(r, c, b) ==
    << <<r.idx_top + c.idx_left, b * r.weight_top * c.weight_left>>,
       <<r.idx_top + c.idx_right, b * r.weight_top * c.weight_right>>,
       <<r.idx_bottom + c.idx_left, b * r.weight_bottom * c.weight_left>>,
       <<r.idx_bottom + c.idx_right, b * r.weight_bottom * c.weight_right>> >>

LargerContribs(r, c, b) == CornerContribs(r, c, b)

(* ------------------------------------------------------------------ *)
(* get_values_generic                                                  *)
(* ------------------------------------------------------------------ *)

\* mutant: the weight of get_values_larger, without the wrap at the dimension
WeightLowNoWrap(n, end, dim) == n - end

\* weight_top / weight_left: (BITS - 1 - end) % dimension + 1
WeightLow(n, end, dim) == ((n - 1 - end) % dim) + 1

\* block_bottom / block_right: (coordinate + 1) * BITS / dimension
NextBlock(n, k, dim) == ((k + 1) * n) \div dim

GenericRow(n, h, yy, r) ==
    LET end_y == ((yy + 1) * n) % h
        hit == end_y < n
        bb == IF hit THEN NextBlock(n, yy, h) ELSE r.block_bottom
    IN  [block_top |-> r.block_bottom,
         block_bottom |-> bb,
         weight_top |-> IF hit THEN WeightLow(n, end_y, h) ELSE r.weight_top,
         weight_bottom |-> IF hit THEN end_y ELSE r.weight_bottom,
         idx_top |-> r.block_bottom * n,
         idx_bottom |-> ClampRow(bb, n)]

GenericCol(n, w, xx, c) ==
    LET end_x == ((xx + 1) * n) % w
        hit == end_x < n
        br == IF hit THEN NextBlock(n, xx, w) ELSE c.block_right
    IN  [block_left |-> c.block_right,
         block_right |-> br,
         weight_left |-> IF hit THEN WeightLow(n, end_x, w) ELSE c.weight_left,
         weight_right |-> IF hit THEN end_x ELSE c.weight_right,
         idx_left |-> c.block_right,
         idx_right |-> ClampCol(br, n)]

\* the top and bottom edge rows weighted without the cell width
EdgeRowContribsUnscaled(w, r, c, b) ==
    LET m == Max2(c.block_right - c.block_left - 1, 0)
    IN  [k \in 1 .. (2 * m) |->
            LET bx == c.block_left + 1 + ((k - 1) \div 2)
            IN  IF k % 2 = 1
                THEN <<r.idx_top + bx, b * r.weight_top>>
                ELSE <<r.idx_bottom + bx, b * r.weight_bottom>>]

\* for bx in (block_left + 1)..block_right: top and bottom edge rows
EdgeRowContribs(w, r, c, b) ==
    LET m == Max2(c.block_right - c.block_left - 1, 0)
    IN  [k \in 1 .. (2 * m) |->
            LET bx == c.block_left + 1 + ((k - 1) \div 2)
            IN  IF k % 2 = 1
                THEN <<r.idx_top + bx, b * r.weight_top * w>>
                ELSE <<r.idx_bottom + bx, b * r.weight_bottom * w>>]

\* the left edge column only
EdgeColContribsLeft(n, h, r, c, b) ==
    LET m == Max2(r.block_bottom - r.block_top - 1, 0)
    IN  [k \in 1 .. m |->
            <<(r.block_top + k) * n + c.idx_left, b * h * c.weight_left>>]

\* for by in (block_top + 1)..block_bottom: left and right edge columns
EdgeColContribs(n, h, r, c, b) ==
    LET m == Max2(r.block_bottom - r.block_top - 1, 0)
    IN  [k \in 1 .. (2 * m) |->
            LET idx_y == (r.block_top + 1 + ((k - 1) \div 2)) * n
            IN  IF k % 2 = 1
                THEN <<idx_y + c.idx_left, b * h * c.weight_left>>
                ELSE <<idx_y + c.idx_right, b * h * c.weight_right>>]

\* mutant: a full cell taken as BITS x BITS instead of width x height
InteriorContribsGrid(n, w, h, r, c, b) ==
    LET mx == Max2(c.block_right - c.block_left - 1, 0)
        my == Max2(r.block_bottom - r.block_top - 1, 0)
    IN  [k \in 1 .. (mx * my) |->
            LET by == r.block_top + 1 + ((k - 1) \div mx)
                bx == c.block_left + 1 + ((k - 1) % mx)
            IN  <<by * n + bx, b * n * n>>]

\* the interior cells: values[idx_y + idx_x] += brightness * width * height
InteriorContribs(n, w, h, r, c, b) ==
    LET mx == Max2(c.block_right - c.block_left - 1, 0)
        my == Max2(r.block_bottom - r.block_top - 1, 0)
    IN  [k \in 1 .. (mx * my) |->
            LET by == r.block_top + 1 + ((k - 1) \div mx)
                bx == c.block_left + 1 + ((k - 1) % mx)
            IN  <<by * n + bx, b * w * h>>]

GenericContribs(n, w, h, r, c, b) ==
    CornerContribs(r, c, b) \o EdgeRowContribs(w, r, c, b)
        \o EdgeColContribs(n, h, r, c, b) \o InteriorContribs(n, w, h, r, c, b)

(* ------------------------------------------------------------------ *)
(* The aggregation functions as functions of the image                 *)
(* ------------------------------------------------------------------ *)

RECURSIVE AlignedRowScan(_, _, _, _, _, _, _, _)
AlignedRowScan(n, w, h, im, yy, xx, r, v) ==
    IF xx >= w THEN v
    ELSE AlignedRowScan(n, w, h, im, yy, xx + 1, r,
            ApplyAll(v, AlignedContribs(n, w, r, xx, PixelBrightness(im, xx, yy))))

RECURSIVE AlignedScan(_, _, _, _, _, _)
AlignedScan(n, w, h, im, yy, v) ==
    IF yy >= h THEN v
    ELSE AlignedScan(n, w, h, im, yy + 1,
            AlignedRowScan(n, w, h, im, yy, 0, AlignedRow(n, h, yy), v))

get_values_aligned(n, w, h, im) == AlignedScan(n, w, h, im, 0, ZeroValues(n))

RECURSIVE LargerRowScan(_, _, _, _, _, _, _, _, _)
LargerRowScan(n, w, h, im, yy, xx, r, c, v) ==
    IF xx >= w THEN v
    ELSE LET c2 == LargerCol(n, w, xx, c)
         IN  LargerRowScan(n, w, h, im, yy, xx + 1, r, c2,
                ApplyAll(v, LargerContribs(r, c2, PixelBrightness(im, xx, yy))))

RECURSIVE LargerScan(_, _, _, _, _, _, _)
LargerScan(n, w, h, im, yy, r, v) ==
    IF yy >= h THEN v
    ELSE LET r2 == LargerRow(n, h, yy, r)
         IN  LargerScan(n, w, h, im, yy + 1, r2,
                LargerRowScan(n, w, h, im, yy, 0, r2, InitCol(n), v))

get_values_larger(n, w, h, im) ==
    LargerScan(n, w, h, im, 0, InitRow(n), ZeroValues(n))

RECURSIVE GenericRowScan(_, _, _, _, _, _, _, _, _)
GenericRowScan(n, w, h, im, yy, xx, r, c, v) ==
    IF xx >= w THEN v
    ELSE LET c2 == GenericCol(n, w, xx, c)
         IN  GenericRowScan(n, w, h, im, yy, xx + 1, r, c2,
                ApplyAll(v, GenericContribs(n, w, h, r, c2,
                                            PixelBrightness(im, xx, yy))))

RECURSIVE GenericScan(_, _, _, _, _, _, _)
GenericScan(n, w, h, im, yy, r, v) ==
    IF yy >= h THEN v
    ELSE LET r2 == GenericRow(n, h, yy, r)
         IN  GenericScan(n, w, h, im, yy + 1, r2,
                GenericRowScan(n, w, h, im, yy, 0, r2, InitCol(n), v))

get_values_generic(n, w, h, im) ==
    GenericScan(n, w, h, im, 0, InitRow(n), ZeroValues(n))

(* ------------------------------------------------------------------ *)
(* convert_to_bits                                                     *)
(* ------------------------------------------------------------------ *)

\* bitwise or of two unsigned integers
RECURSIVE BitOr(_, _)
BitOr(a, b) ==
    IF a = 0 THEN b
    ELSE IF b = 0 THEN a
    ELSE Max2(a % 2, b % 2) + 2 * BitOr(a \div 2, b \div 2)

\* band_size = NUM_BLOCKS / 4
BAND_SIZE(n) == NUM_BLOCKS(n) \div 4

\* the brightness of the whole image, not halved
HalfValueWhole(max_value, w, h) == max_value * w * h

\* half_value = max_value * width * height / 2
HalfValue(max_value, w, h) == (max_value * w * h) \div 2

\* bands[offset..(offset + band_size)] of band i (0..3), as a sequence
Band(v, n, i) == [k \in 1 .. BAND_SIZE(n) |-> v[i * BAND_SIZE(n) + k - 1]]

\* the band left in the order of the cells
SortBandNone(band) == band

\* band.sort_unstable()
SortBand(band) == SortSeq(band, LAMBDA a, b : a < b)

\* mutant: the upper middle element instead of the mean of the two
MedianUpper(sorted) == sorted[(Len(sorted) \div 2) + 1]

\* median = (band[band_size / 2 - 1] + band[band_size / 2]) / 2
Median(sorted) ==
    LET half == Len(sorted) \div 2
    IN  (sorted[half] + sorted[half + 1]) \div 2

\* mutant: the comparison with the median reversed
BitDarker(val, median, half_value) ==
    IF val < median \/ (val = median /\ val > half_value) THEN 1 ELSE 0

\* a value equal to the median always gets bit 1
BitAtLeast(val, median, half_value) == IF val >= median THEN 1 ELSE 0

\* if val > median || (val == median && val > half_value) { 1 } else { 0 }
Bit(val, median, half_value) ==
    IF val > median \/ (val = median /\ val > half_value) THEN 1 ELSE 0

\* one median, of all the cells, for the four bands
MediansGlobal(v, n) ==
    [i \in 0 .. 3 |-> Median(SortBand([k \in 1 .. NUM_BLOCKS(n) |-> v[k - 1]]))]

\* the medians of the four bands
Medians(v, n) == [i \in 0 .. 3 |-> Median(SortBand(Band(v, n, i)))]

\* the loop over the values of a band, given the medians
BitsWith(v, n, median, half_value) ==
    [c \in Cells(n) |-> Bit(v[c], median[c \div BAND_SIZE(n)], half_value)]

\* the bits array after the loop over the four bands
BitsOf(v, n, w, h, max_value) ==
    BitsWith(v, n, Medians(v, n), HalfValue(max_value, w, h))

\* mutant: the bits enter at the top, least significant bit first
PushBitLsb(res, bit) == BitOr(res \div 2, bit * 128)

\* res[i] <<= 1; res[i] |= bit, on a u8
PushBit(res, bit) == BitOr((res * 2) % 256, bit)

RECURSIVE PackOctet(_, _, _)
PackOctet(octet, k, res) ==
    IF k > Len(octet) THEN res
    ELSE PackOctet(octet, k + 1, PushBit(res, octet[k]))

\* bits.chunks(8), chunk i (0-based)
Chunk(bs, n, i) ==
    [k \in 1 .. Min2(8, NUM_BLOCKS(n) - 8 * i) |-> bs[8 * i + k - 1]]

\* the digest: one byte per chunk of 8 bits
Pack(bs, n) ==
    [i \in 1 .. DIGEST_SIZE(n) |-> PackOctet(Chunk(bs, n, i - 1), 1, 0)]

convert_to_bits(w, h, v, n, max_value) == Pack(BitsOf(v, n, w, h, max_value), n)

\* the unsigned results convert_to_bits computes before dividing
ConvertTerms(w, h, v, n, max_value) ==
    {max_value * w * h}
        \cup { LET s == SortBand(Band(v, n, i))
               IN  s[Len(s) \div 2] + s[(Len(s) \div 2) + 1] : i \in 0 .. 3 }

(* ------------------------------------------------------------------ *)
(* Digests: distance, fmt and from_str                                 *)
(* ------------------------------------------------------------------ *)

\* const HASH_BYTES: usize = HASH_SIZE / 8
HASH_BYTES(n) == (n * n) \div 8

\* the bits of a that are not bits of b
AndNot(a, b) == BitOr(a, b) - b

\* left[i] ^ right[i], on u8: the bits of a or b less the bits of both
Xor(a, b) == BitOr(a, b) - (a + b - BitOr(a, b))

\* the lowest bit only
CountLowest(v) == v % 2

\* u8::count_ones
count_ones(v) == Cardinality({k \in 0 .. 7 : (v \div Pow2(k)) % 2 = 1})

\* (left[i] ^ right[i]).count_ones(), for every i
ByteDistances(left, right) ==
    [i \in DOMAIN left |-> count_ones(Xor(left[i], right[i]))]

\* for i in 0..HASH_BYTES { dist += ... }: the sum of the first k terms
RECURSIVE DistanceLoop(_, _)
DistanceLoop(ds, k) == IF k = 0 THEN 0 ELSE DistanceLoop(ds, k - 1) + ds[k]

\* the loop of distance stopping one byte early
DistanceShort(left, right) ==
    DistanceLoop(ByteDistances(left, right), Len(left) - 1)

distance(left, right) == DistanceLoop(ByteDistances(left, right), Len(left))

\* the characters, as the bytes of the text
Char0 == 48

CharLowerA == 97

CharUpperA == 65

\* one upper-case hexadecimal digit
HexDigitUpper(v) == IF v < 10 THEN Char0 + v ELSE CharUpperA + (v - 10)

\* one digit of the format x: lower-case hexadecimal
HexDigit(v) == IF v < 10 THEN Char0 + v ELSE CharLowerA + (v - 10)

\* the format {:x}, without padding
FmtByteNoPad(byte) ==
    IF byte < 16 THEN <<HexDigit(byte)>>
    ELSE <<HexDigit(byte \div 16), HexDigit(byte % 16)>>

\* write!(f, "{:02x}", byte)
FmtByte(byte) == <<HexDigit(byte \div 16), HexDigit(byte % 16)>>

\* for byte in &hash { write!(f, "{:02x}", byte)? }
RECURSIVE FmtLoop(_, _, _)
FmtLoop(hash, i, out) ==
    IF i >= Len(hash) THEN out
    ELSE FmtLoop(hash, i + 1, out \o FmtByte(hash[i + 1]))

fmt(hash) == FmtLoop(hash, 0, <<>>)

Ok(v) == <<"Ok", v>>

BlockhashParseError == <<"Err">>

\* parse_char without the offset of 10 of the letters
ParseCharNoOffset(c) ==
    IF c \in Char0 .. (Char0 + 9) THEN Ok(c - Char0)
    ELSE IF c \in CharLowerA .. (CharLowerA + 5) THEN Ok(c - CharLowerA)
    ELSE IF c \in CharUpperA .. (CharUpperA + 5) THEN Ok(c - CharUpperA)
    ELSE BlockhashParseError

\* an upper-case letter read as a lower-case digit of another alphabet
UpperValueNoOffset(c) == c - CharUpperA

\* b'A'..=b'F' => c - (b'A' - 10)
UpperValue(c) == c - (CharUpperA - 10)

\* b'0'..=b'9' => c - b'0', b'a'..=b'f' => c - (b'a' - 10),
\* b'A'..=b'F' => c - (b'A' - 10), _ => Err
parse_char(c) ==
    IF c \in Char0 .. (Char0 + 9) THEN Ok(c - Char0)
    ELSE IF c \in CharLowerA .. (CharLowerA + 5) THEN Ok(c - (CharLowerA - 10))
    ELSE IF c \in CharUpperA .. (CharUpperA + 5) THEN Ok(UpperValue(c))
    ELSE BlockhashParseError

\* bytes[i] = (parse_char(s[2 * i])? << 4) | parse_char(s[2 * i + 1])?
RECURSIVE FromStrLoop(_, _, _, _)
FromStrLoop(s, n, i, bytes) ==
    IF i >= HASH_BYTES(n) THEN Ok(bytes)
    ELSE LET hi == parse_char(s[2 * i + 1])
             lo == parse_char(s[2 * i + 2])
         IN  IF hi = BlockhashParseError \/ lo = BlockhashParseError
             THEN BlockhashParseError
             ELSE FromStrLoop(s, n, i + 1,
                              Append(bytes, BitOr((hi[2] * 16) % 256, lo[2])))

\* from_str refusing the texts that are too short only
FromStrAtLeast(s, n) ==
    IF Len(s) < HASH_BYTES(n) * 2 THEN BlockhashParseError
    ELSE FromStrLoop(s, n, 0, <<>>)

\* from_str for the variant of grid size n
from_str(s, n) ==
    IF Len(s) # HASH_BYTES(n) * 2 THEN BlockhashParseError
    ELSE FromStrLoop(s, n, 0, <<>>)

(* ------------------------------------------------------------------ *)
(* The digests the digest operations are applied to                    *)
(* ------------------------------------------------------------------ *)

MaxSeed == 255

MaxVariant == 5

\* the steps from one byte of a digest to the next
Strides == {0, 37, 129}

\* the digest of grid size n whose bytes start at seed and advance by stride
Digest(n, seed, stride) ==
    [i \in 1 .. HASH_BYTES(n) |-> (seed + stride * (i - 1)) % 256]

\* the byte b with bit k inverted
ToggleBit(b, k) ==
    IF (b \div Pow2(k)) % 2 = 1 THEN b - Pow2(k) ELSE b + Pow2(k)

\* byte i of the m-th digest compared with a digest of byte b at i, of k
\* bytes: the digest itself, its complement, a digest that differs in the
\* first byte only, one that differs in the top bit of the last byte only,
\* one that differs in bit 3 of the odd bytes and bits 0 and 6 of the even
\* bytes, and digests unrelated to it
VariantByte(m, b, i, k) ==
    IF m = 0 THEN b
    ELSE IF m = 1 THEN 255 - b
    ELSE IF m = 2 THEN (IF i = 1 THEN (b + 1) % 256 ELSE b)
    ELSE IF m = 3 THEN (IF i = k THEN ToggleBit(b, 7) ELSE b)
    ELSE IF m = 4 THEN (IF i % 2 = 1 THEN ToggleBit(b, 3)
                        ELSE ToggleBit(ToggleBit(b, 6), 0))
    ELSE (b * 3 + i + m) % 256

Variant(m, d) == [i \in DOMAIN d |-> VariantByte(m, d[i], i, Len(d))]

(* ------------------------------------------------------------------ *)
(* The texts from_str is applied to                                    *)
(* ------------------------------------------------------------------ *)

MaxTextSeed == 21

\* the characters 0-9, a-f and A-F
HexChars ==
    <<48, 49, 50, 51, 52, 53, 54, 55, 56, 57,
      97, 98, 99, 100, 101, 102, 65, 66, 67, 68, 69, 70>>

\* the steps from one character of a text to the next
TextStrides == {1, 7}

\* the text of len characters of HexChars that starts at seed and advances
\* by stride, and by one more for every full turn of the seed
HexText(len, seed, stride) ==
    LET step == stride + (seed \div Len(HexChars))
    IN  [j \in 1 .. len |->
            HexChars[((seed + step * (j - 1)) % Len(HexChars)) + 1]]

\* bytes that are no hexadecimal digit: the neighbours of the three ranges,
\* NUL, space, and bytes of a character that is not ASCII
BadBytes == {0, 32, 47, 58, 64, 71, 96, 103, 195, 169}

\* the lengths of the texts, for a digest of k bytes
TextLengths(k) == {0, 1, k, 2 * k - 1, 2 * k, 2 * k + 1, 2 * k + 2, 4 * k}

\* the text t with byte b at position pos
WithByte(t, pos, b) == [j \in DOMAIN t |-> IF j = pos THEN b ELSE t[j]]

\* the texts given to from_str for the variant of grid size n: texts of
\* hexadecimal digits of every length of TextLengths, and texts of the right
\* length with one byte of BadBytes at either end or in the middle
Texts(n) ==
    LET k == HASH_BYTES(n)
    IN  { HexText(len, seed, stride) :
            len \in TextLengths(k), seed \in 0 .. MaxTextSeed, stride \in TextStrides }
        \cup
        { WithByte(HexText(2 * k, seed, 1), pos, b) :
            seed \in {0, 10, 16}, pos \in {1, 2, k, 2 * k - 1, 2 * k}, b \in BadBytes }

\* str::to_ascii_lowercase
Lowercase(t) ==
    [j \in DOMAIN t |-> IF t[j] \in 65 .. 90 THEN t[j] + 32 ELSE t[j]]

(* ------------------------------------------------------------------ *)
(* State                                                               *)
(* ------------------------------------------------------------------ *)

VARIABLES
    BITS,       \* the grid size of the digest variant
    width,      \* img.dimensions().0
    height,     \* img.dimensions().1
    img,        \* the pixels, by <<x, y>>
    entry,      \* "blockhash" (dispatched) or "direct" (one aggregation function called)
    path,       \* "aligned", "larger" or "generic" once chosen
    pc,         \* "start", "row", "col", "aggregated", "done", "panic"
    y,          \* the row of the outer loop
    x,          \* the column of the inner loop
    values,     \* the cell accumulators
    row,        \* the locals set per row
    col,        \* the locals set per pixel
    touched,    \* the indices of values used by the last pixel step
    divisors,   \* the divisors of the / and % of the last step
    peak,       \* the largest unsigned result computed so far
    bits,       \* convert_to_bits: the bit of every cell
    digest,     \* convert_to_bits: the packed bytes
    reads,      \* the coordinates asked of the pixel source, in order
    brightness, \* the brightness returned by the last read
    again,      \* "no", or the image of the second computation: "same",
                \* "repainted", "opposite"
    first,      \* the digest of the first computation, once recomputing
    left,       \* the digest the digest operations are applied to
    right,      \* the digest it is compared with
    op,         \* "idle", "ready", "compared", "formatted", "parsed", or
                \* for a text given: "given", "read", "shown", "reread"
    dist,       \* the result of distance
    text,       \* the result of fmt, the bytes of the text
    parsed,     \* the result of from_str
    input,      \* the text given to from_str
    reparsed,   \* the result of from_str on the text given, in lower case
    other       \* the locals of the computation that is suspended, or "none"

vars == <<BITS, width, height, img, entry, path, pc, y, x, values, row, col,
          touched, divisors, peak, bits, digest, reads, brightness, again,
          first, left, right, op, dist, text, parsed, input, reparsed, other>>

hashing == <<BITS, width, height, img, entry, path, pc, y, x, values, row, col,
             touched, divisors, peak, bits, digest, reads, brightness, again,
             first, other>>

api == <<left, right, op, dist, text, parsed, input, reparsed>>

image == <<BITS, width, height, img>>

output == <<bits, digest>>

rerun == <<again, first, other>>

Init ==
    /\ BITS \in Sizes
    /\ width \in 0 .. MaxDim
    /\ height \in 0 .. MaxDim
    /\ img \in Images(width, height)
    /\ entry = "none"
    /\ path = "none"
    /\ pc = "start"
    /\ y = 0
    /\ x = 0
    /\ values = ZeroValues(BITS)
    /\ row = InitRow(BITS)
    /\ col = InitCol(BITS)
    /\ touched = {}
    /\ divisors = {}
    /\ peak = 0
    /\ bits = <<>>
    /\ digest = <<>>
    /\ reads = <<>>
    /\ brightness = 0
    /\ again = "no"
    /\ first = <<>>
    /\ left = <<>>
    /\ right = <<>>
    /\ op = "idle"
    /\ dist = 0
    /\ text = <<>>
    /\ parsed = <<>>
    /\ input = <<>>
    /\ reparsed = <<>>
    /\ other = "none"

(* ------------------------------------------------------------------ *)
(* Actions                                                             *)
(* ------------------------------------------------------------------ *)

\* entering an aggregation function on the cells of the call before
EnterDirty(p) ==
    /\ path' = p
    /\ values' = values
    /\ row' = IF p = "aligned" THEN [block_y |-> 0, idx_row |-> 0] ELSE InitRow(BITS)
    /\ col' = InitCol(BITS)
    /\ y' = 0
    /\ x' = 0
    /\ pc' = IF height = 0 THEN "aggregated" ELSE "row"
    /\ divisors' = IF p = "aligned" THEN {BITS} ELSE {}
    /\ reads' = <<>>
    /\ UNCHANGED <<BITS, width, height, touched, peak, output, brightness, api>>

\* entering an aggregation function: zeroed cells, cursors at their start
Enter(p) ==
    /\ path' = p
    /\ values' = ZeroValues(BITS)
    /\ row' = IF p = "aligned" THEN [block_y |-> 0, idx_row |-> 0] ELSE InitRow(BITS)
    /\ col' = InitCol(BITS)
    /\ y' = 0
    /\ x' = 0
    /\ pc' = IF height = 0 THEN "aggregated" ELSE "row"
    /\ divisors' = IF p = "aligned" THEN {BITS} ELSE {}
    /\ reads' = <<>>
    /\ UNCHANGED <<BITS, width, height, touched, peak, output, brightness, api>>

\* blockhash: read the dimensions and dispatch on them
Blockhash ==
    /\ pc = "start"
    /\ entry' = "blockhash"
    /\ Enter(SelectPath(width, height, BITS))
    /\ UNCHANGED <<img, rerun>>

\* blockhash called a second time on the same image
Recompute ==
    /\ pc = "done"
    /\ entry = "blockhash"
    /\ again = "no"
    /\ width <= MaxRerunDim /\ height <= MaxRerunDim
    /\ again' = "same"
    /\ first' = digest
    /\ Enter(SelectPath(width, height, BITS))
    /\ UNCHANGED <<img, entry, other>>

\* blockhash called on the image that differs in the colour channels of its
\* alpha-0 pixels only
RecomputeRepainted ==
    /\ pc = "done"
    /\ entry = "blockhash"
    /\ again = "no"
    /\ width <= MaxRerunDim /\ height <= MaxRerunDim
    /\ \E p \in DOMAIN img : img[p][4] = 0
    /\ \E rgb \in RepaintColours : img' = Repaint(img, rgb)
    /\ again' = "repainted"
    /\ first' = digest
    /\ Enter(SelectPath(width, height, BITS))
    /\ UNCHANGED <<entry, other>>

\* blockhash called on the black image of the size of a white image, or on
\* the white image of the size of a black image
RecomputeOpposite ==
    /\ pc = "done"
    /\ entry = "blockhash"
    /\ again = "no"
    /\ width <= MaxRerunDim /\ height <= MaxRerunDim
    /\ width >= 1 /\ height >= 1
    /\ \E k \in {1, 2} :
        /\ \A c \in DOMAIN img : Brightness(img[c]) = Brightness(Palette[k])
        /\ img' = UniformImage(width, height, Palette[3 - k])
    /\ again' = "opposite"
    /\ first' = digest
    /\ Enter(SelectPath(width, height, BITS))
    /\ UNCHANGED <<entry, other>>

\* one aggregation function called on its own, on an image of its domain
\* for which blockhash itself calls another one
DirectCall ==
    /\ pc = "start"
    /\ entry' = "direct"
    /\ \E p \in {"larger", "generic"} :
        /\ p # SelectPath(width, height, BITS)
        /\ p = "larger" => (width >= BITS /\ height >= BITS)
        /\ Enter(p)
    /\ UNCHANGED <<img, rerun>>

\* a panic: division by zero or index out of bounds
Panic(ds, idxs) ==
    /\ pc' = "panic"
    /\ divisors' = ds
    /\ touched' = idxs
    /\ UNCHANGED <<image, entry, path, y, x, values, row, col, peak, output,
                   rerun, api>>

\* the end of the body of the outer loop, when the row has no pixel
NextRow ==
    /\ y' = y + 1
    /\ x' = 0
    /\ pc' = IF y + 1 = height THEN "aggregated" ELSE "row"

\* the end of the body of the inner loop
NextPixel ==
    IF x + 1 = width
    THEN NextRow
    ELSE /\ x' = x + 1
         /\ y' = y
         /\ pc' = "col"

\* the head of a row: the prologue r of the row, computed with divisors ds
RowStep(p, ds, r, terms) ==
    /\ pc = "row"
    /\ path = p
    /\ y < height
    /\ UNCHANGED <<reads, brightness>>
    /\ IF 0 \in ds
       THEN Panic(ds, {})
       ELSE /\ row' = r
            /\ col' = InitCol(BITS)
            /\ divisors' = ds
            /\ touched' = {}
            /\ peak' = Max2(peak, SetMax(terms))
            /\ IF width = 0
               THEN NextRow
               ELSE x' = 0 /\ y' = y /\ pc' = "col"
            /\ UNCHANGED <<image, entry, path, values, output, rerun, api>>

\* one pixel: the cursors c, the contributions cs, computed with divisors ds
PixelStep(p, ds, c, cs, terms) ==
    /\ pc = "col"
    /\ path = p
    /\ IF 0 \in ds
       THEN Panic(ds, {}) /\ UNCHANGED <<reads, brightness>>
       ELSE IF ReadAt(x, y) \notin DOMAIN img
       THEN /\ Panic(ds, {})
            /\ reads' = Append(reads, ReadAt(x, y))
            /\ UNCHANGED brightness
       ELSE IF ~ (Indices(cs) \subseteq Cells(BITS))
       THEN /\ Panic(ds, Indices(cs))
            /\ reads' = Append(reads, ReadAt(x, y))
            /\ brightness' = PixelBrightness(img, x, y)
       ELSE /\ col' = c
            /\ reads' = Append(reads, ReadAt(x, y))
            /\ brightness' = PixelBrightness(img, x, y)
            /\ divisors' = ds
            /\ touched' = Indices(cs)
            /\ values' = ApplyAll(values, cs)
            /\ peak' = Max2(peak, SetMax(terms \cup Amounts(cs) \cup {values'[i] : i \in Indices(cs)}))
            /\ NextPixel
            /\ UNCHANGED <<image, entry, path, row, output, rerun, api>>

AlignedRowStep ==
    LET ds == {BlockSize(height, BITS)}
    IN  RowStep("aligned", ds, AlignedRow(BITS, height, y), {})

AlignedPixel ==
    LET ds == {BlockSize(width, BITS)}
    IN  PixelStep("aligned", ds, col,
                  AlignedContribs(BITS, width, row, x, PixelBrightness(img, x, y)),
                  {})

LargerRowStep ==
    RowStep("larger", {height}, LargerRow(BITS, height, y, row), {(y + 1) * BITS})

LargerPixel ==
    LET c == LargerCol(BITS, width, x, col)
    IN  PixelStep("larger", {width}, c,
                  LargerContribs(row, c, PixelBrightness(img, x, y)),
                  {(x + 1) * BITS})

GenericRowStep ==
    RowStep("generic", {height}, GenericRow(BITS, height, y, row), {(y + 1) * BITS})

GenericPixel ==
    LET c == GenericCol(BITS, width, x, col)
    IN  PixelStep("generic", {width}, c,
                  GenericContribs(BITS, width, height, row, c,
                                  PixelBrightness(img, x, y)),
                  {(x + 1) * BITS})

\* convert_to_bits(width, height, &values, MAX_BRIGHTNESS)
ConvertToBits ==
    /\ pc = "aggregated"
    /\ \E median \in {Medians(values, BITS)} :
            bits' = BitsWith(values, BITS, median,
                             HalfValue(MAX_BRIGHTNESS, width, height))
    /\ digest' = Pack(bits', BITS)
    /\ peak' = Max2(peak, SetMax(ConvertTerms(width, height, values, BITS,
                                              MAX_BRIGHTNESS)))
    /\ pc' = "done"
    /\ UNCHANGED <<image, entry, path, y, x, values, row, col, touched, divisors,
                   reads, brightness, rerun, api>>

Next ==
    \/ Blockhash
    \/ DirectCall
    \/ AlignedRowStep
    \/ AlignedPixel
    \/ LargerRowStep
    \/ LargerPixel
    \/ GenericRowStep
    \/ GenericPixel
    \/ ConvertToBits
    \/ Recompute
    \/ RecomputeRepainted
    \/ RecomputeOpposite

Spec == Init /\ [][Next]_vars

(* ------------------------------------------------------------------ *)
(* The digest operations                                               *)
(* ------------------------------------------------------------------ *)

\* two digests of one variant, no image being hashed
InitDigest ==
    /\ BITS \in Sizes
    /\ width = 0
    /\ height = 0
    /\ img \in Images(0, 0)
    /\ entry = "none"
    /\ path = "none"
    /\ pc = "idle"
    /\ y = 0
    /\ x = 0
    /\ values = <<>>
    /\ row = InitRow(BITS)
    /\ col = InitCol(BITS)
    /\ touched = {}
    /\ divisors = {}
    /\ peak = 0
    /\ bits = <<>>
    /\ digest = <<>>
    /\ reads = <<>>
    /\ brightness = 0
    /\ again = "no"
    /\ first = <<>>
    /\ \E seed \in 0 .. MaxSeed, stride \in Strides :
            left = Digest(BITS, seed, stride)
    /\ \E m \in 0 .. MaxVariant : right = Variant(m, left)
    /\ op = "ready"
    /\ dist = 0
    /\ text = <<>>
    /\ parsed = <<>>
    /\ input = <<>>
    /\ reparsed = <<>>
    /\ other = "none"

\* left.distance(&right)
Distance ==
    /\ op = "ready"
    /\ dist' = distance(left, right)
    /\ op' = "compared"
    /\ UNCHANGED <<hashing, left, right, text, parsed, input, reparsed>>

\* left.to_string()
Fmt ==
    /\ op = "compared"
    /\ text' = fmt(left)
    /\ op' = "formatted"
    /\ UNCHANGED <<hashing, left, right, dist, parsed, input, reparsed>>

\* text.parse()
FromStr ==
    /\ op = "formatted"
    /\ parsed' = from_str(text, BITS)
    /\ op' = "parsed"
    /\ UNCHANGED <<hashing, left, right, dist, text, input, reparsed>>

NextDigest ==
    \/ Distance
    \/ Fmt
    \/ FromStr

SpecDigest == InitDigest /\ [][NextDigest]_vars

(* ------------------------------------------------------------------ *)
(* Parsing a text that is given                                        *)
(* ------------------------------------------------------------------ *)

\* no image being hashed
HashingIdle ==
    /\ width = 0
    /\ height = 0
    /\ img \in Images(0, 0)
    /\ entry = "none"
    /\ path = "none"
    /\ pc = "idle"
    /\ y = 0
    /\ x = 0
    /\ values = <<>>
    /\ row = InitRow(BITS)
    /\ col = InitCol(BITS)
    /\ touched = {}
    /\ divisors = {}
    /\ peak = 0
    /\ bits = <<>>
    /\ digest = <<>>
    /\ reads = <<>>
    /\ brightness = 0
    /\ again = "no"
    /\ first = <<>>
    /\ other = "none"

\* a text and the variant it is parsed for
InitParse ==
    /\ BITS \in Sizes
    /\ HashingIdle
    /\ input \in Texts(BITS)
    /\ op = "given"
    /\ left = <<>>
    /\ right = <<>>
    /\ dist = 0
    /\ text = <<>>
    /\ parsed = <<>>
    /\ reparsed = <<>>

\* input.parse()
ParseInput ==
    /\ op = "given"
    /\ parsed' = from_str(input, BITS)
    /\ op' = "read"
    /\ UNCHANGED <<hashing, left, right, dist, text, input, reparsed>>

\* the digest parsed, and its to_string()
Display ==
    /\ op = "read"
    /\ parsed # BlockhashParseError
    /\ left' = parsed[2]
    /\ text' = fmt(parsed[2])
    /\ op' = "shown"
    /\ UNCHANGED <<hashing, right, dist, parsed, input, reparsed>>

\* input.to_ascii_lowercase().parse()
ParseLowered ==
    /\ op = "shown"
    /\ reparsed' = from_str(Lowercase(input), BITS)
    /\ op' = "reread"
    /\ UNCHANGED <<hashing, left, right, dist, text, parsed, input>>

NextParse ==
    \/ ParseInput
    \/ Display
    \/ ParseLowered

SpecParse == InitParse /\ [][NextParse]_vars

(* ------------------------------------------------------------------ *)
(* Two computations on one image, interleaved                          *)
(* ------------------------------------------------------------------ *)

\* the widths and heights of the images hashed by two computations
PairDims == {1, 4, 5}

\* the patterns of the images hashed by two computations
PairPatterns == {3, 5}

\* the locals of the computation that is running
Context ==
    [BITS |-> BITS, entry |-> entry, path |-> path, pc |-> pc, y |-> y, x |-> x,
     values |-> values, row |-> row, col |-> col, touched |-> touched,
     divisors |-> divisors, peak |-> peak, bits |-> bits, digest |-> digest,
     reads |-> reads, brightness |-> brightness]

\* the locals of a call of the variant of grid size n that has not started
Fresh(n) ==
    [BITS |-> n, entry |-> "none", path |-> "none", pc |-> "start", y |-> 0,
     x |-> 0, values |-> ZeroValues(n), row |-> InitRow(n), col |-> InitCol(n),
     touched |-> {}, divisors |-> {}, peak |-> 0, bits |-> <<>>,
     digest |-> <<>>, reads |-> <<>>, brightness |-> 0]

\* resuming on the cell array that is in use, when it has the size wanted
ResumeSharedCells(ctx) ==
    /\ BITS' = ctx.BITS
    /\ entry' = ctx.entry
    /\ path' = ctx.path
    /\ pc' = ctx.pc
    /\ y' = ctx.y
    /\ x' = ctx.x
    /\ values' = IF DOMAIN values = DOMAIN ctx.values THEN values ELSE ctx.values
    /\ row' = ctx.row
    /\ col' = ctx.col
    /\ touched' = ctx.touched
    /\ divisors' = ctx.divisors
    /\ peak' = ctx.peak
    /\ bits' = ctx.bits
    /\ digest' = ctx.digest
    /\ reads' = ctx.reads
    /\ brightness' = ctx.brightness

\* resuming the computation of locals ctx
Resume(ctx) ==
    /\ BITS' = ctx.BITS
    /\ entry' = ctx.entry
    /\ path' = ctx.path
    /\ pc' = ctx.pc
    /\ y' = ctx.y
    /\ x' = ctx.x
    /\ values' = ctx.values
    /\ row' = ctx.row
    /\ col' = ctx.col
    /\ touched' = ctx.touched
    /\ divisors' = ctx.divisors
    /\ peak' = ctx.peak
    /\ bits' = ctx.bits
    /\ digest' = ctx.digest
    /\ reads' = ctx.reads
    /\ brightness' = ctx.brightness

\* one image, a computation about to start and another one, of the same or
\* of the smallest variant, suspended before its start
InitPair ==
    /\ BITS \in Sizes
    /\ width \in PairDims
    /\ height \in PairDims
    /\ \E k \in PairPatterns :
            img = [p \in Coords(width, height) |-> Pattern(k, p[1], p[2])]
    /\ entry = "none"
    /\ path = "none"
    /\ pc = "start"
    /\ y = 0
    /\ x = 0
    /\ values = ZeroValues(BITS)
    /\ row = InitRow(BITS)
    /\ col = InitCol(BITS)
    /\ touched = {}
    /\ divisors = {}
    /\ peak = 0
    /\ bits = <<>>
    /\ digest = <<>>
    /\ reads = <<>>
    /\ brightness = 0
    /\ again = "no"
    /\ first = <<>>
    /\ \E n \in {BITS, 4} : other = Fresh(n)
    /\ left = <<>>
    /\ right = <<>>
    /\ op = "idle"
    /\ dist = 0
    /\ text = <<>>
    /\ parsed = <<>>
    /\ input = <<>>
    /\ reparsed = <<>>

\* the computation that is running is suspended, at any point before it
\* returns, and the other one resumed
Switch ==
    /\ other.pc # "done"
    /\ other' = Context
    /\ Resume(other)
    /\ UNCHANGED <<width, height, img, again, first, api>>

NextPair ==
    \/ Blockhash
    \/ AlignedRowStep
    \/ AlignedPixel
    \/ LargerRowStep
    \/ LargerPixel
    \/ GenericRowStep
    \/ GenericPixel
    \/ ConvertToBits
    \/ Switch

SpecPair == InitPair /\ [][NextPair]_vars

(* ------------------------------------------------------------------ *)
(* Reference definitions used by the properties                        *)
(* ------------------------------------------------------------------ *)

\* the sum f[0] + ... + f[k - 1]
RECURSIVE SumFn(_, _)
SumFn(f, k) == IF k = 0 THEN 0 ELSE f[k - 1] + SumFn(f, k - 1)

\* the length of the overlap of [a0, a1) with [b0, b1)
Overlap(a0, a1, b0, b1) == Max2(0, Min2(a1, b1) - Max2(a0, b0))

\* the integral of the brightness over the rectangle of cell (bx, by), in the
\* plane where a pixel is n x n and a cell is w x h
CellIntegral(n, w, h, im, bx, by) ==
    SumFn([yy \in 0 .. (h - 1) |->
            Overlap(yy * n, (yy + 1) * n, by * h, (by + 1) * h)
            * SumFn([xx \in 0 .. (w - 1) |->
                        PixelBrightness(im, xx, yy)
                        * Overlap(xx * n, (xx + 1) * n, bx * w, (bx + 1) * w)],
                    w)],
          h)

\* the k-th smallest element of a sequence, by counting
KthSmallest(s, k) ==
    CHOOSE v \in Range(s) :
        /\ Cardinality({j \in DOMAIN s : s[j] < v}) < k
        /\ Cardinality({j \in DOMAIN s : s[j] <= v}) >= k

\* floor((sorted[half - 1] + sorted[half]) / 2) of band i of the cell values
BandMedian(i) ==
    LET band == Band(values, BITS, i)
        half == BAND_SIZE(BITS) \div 2
    IN  (KthSmallest(band, half) + KthSmallest(band, half + 1)) \div 2

BandMedians == [i \in 0 .. 3 |-> BandMedian(i)]

BandIndex(c) == c \div BAND_SIZE(BITS)

Positive == width >= 1 /\ height >= 1

(* ------------------------------------------------------------------ *)
(* Properties                                                          *)
(* ------------------------------------------------------------------ *)

\* C1: on every image with W, H >= 1 the generic aggregation leaves in every
\* cell (bx, by) the sum over the pixels of brightness * ox * oy, the exact
\* integral of the brightness over the rectangle of the cell.
C1_GenericIsExactIntegral ==
    (path = "generic" /\ Positive) =>
        /\ pc # "panic"
        /\ pc = "aggregated" =>
            \A bx \in 0 .. (BITS - 1), by \in 0 .. (BITS - 1) :
                values[by * BITS + bx]
                    = CellIntegral(BITS, width, height, img, bx, by)

\* a generic scan over an image narrower than the grid whose width does not
\* divide the grid, with cells of different values
C1_Witness ==
    /\ pc = "aggregated" /\ path = "generic"
    /\ width > 1 /\ width < BITS /\ BITS % width # 0
    /\ height > 1 /\ BITS % height # 0
    /\ \E c, d \in Cells(BITS) : 0 < values[c] /\ values[c] < values[d]

\* C2: on an image whose width and height are positive multiples of BITS the
\* aligned and the generic aggregation give the same cell values, hence the
\* same digest.
C2_AlignedEqualsGeneric ==
    /\ (pc = "aggregated" /\ path = "aligned" /\ Positive) =>
            values = get_values_generic(BITS, width, height, img)
    /\ (pc = "aggregated" /\ path = "generic" /\ Positive
            /\ width % BITS = 0 /\ height % BITS = 0) =>
            values = get_values_aligned(BITS, width, height, img)
    /\ (pc = "done" /\ path = "aligned" /\ Positive) =>
            digest = convert_to_bits(width, height,
                        get_values_generic(BITS, width, height, img),
                        BITS, MAX_BRIGHTNESS)

\* an aligned scan with blocks of more than one pixel and a digest of mixed bits
C2_Witness ==
    /\ pc = "done" /\ path = "aligned"
    /\ width = 2 * BITS /\ height = BITS
    /\ \E c, d \in Cells(BITS) : bits[c] = 0 /\ bits[d] = 1

\* C3: on every image with W >= BITS and H >= BITS the larger-than-grid
\* aggregation gives the cell values of the generic aggregation.
C3_LargerEqualsGeneric ==
    path = "larger" =>
        /\ width >= BITS /\ height >= BITS
        /\ pc # "panic"
        /\ pc = "aggregated" => values = get_values_generic(BITS, width, height, img)

\* a larger-than-grid scan of an image aligned on neither axis
C3_Witness ==
    /\ pc = "aggregated" /\ path = "larger"
    /\ width % BITS # 0 /\ height % BITS # 0 /\ width # height
    /\ \E c, d \in Cells(BITS) : 0 < values[c] /\ values[c] < values[d]

\* C4: blockhash chooses the path from (W, H, BITS) alone: aligned when both
\* are multiples of BITS, else larger when both are at least BITS, else
\* generic; so for W, H >= 1 generic is chosen exactly when W < BITS or H < BITS.
C4_PathChosenFromDimensions ==
    entry = "blockhash" =>
        /\ path = "aligned" <=> (width % BITS = 0 /\ height % BITS = 0)
        /\ path = "larger" <=>
              (~ (width % BITS = 0 /\ height % BITS = 0)
                 /\ width >= BITS /\ height >= BITS)
        /\ path \in {"aligned", "larger", "generic"}
        /\ Positive => (path = "generic" <=> (width < BITS \/ height < BITS))

\* the dispatcher took the larger path on an image exactly as wide as the grid
C4_Witness ==
    entry = "blockhash" /\ path = "larger" /\ width = BITS /\ height > BITS

\* C5: in each of the four bands, with median the floor of the mean of the
\* two middle values and half_value = floor(MAX_BRIGHTNESS * W * H / 2), the
\* bit of a value v is 1 iff v > median or (v = median and median > half_value).
C5_BitRule ==
    pc = "done" =>
        LET half_value == (MAX_BRIGHTNESS * width * height) \div 2
        IN  \A med \in {BandMedians} : \A c \in Cells(BITS) :
                bits[c] = IF \/ values[c] > med[BandIndex(c)]
                             \/ /\ values[c] = med[BandIndex(c)]
                                /\ med[BandIndex(c)] > half_value
                          THEN 1 ELSE 0

\* a band with a value equal to a median above half_value, and a smaller one
C5_Witness ==
    /\ pc = "done"
    /\ \E med \in {BandMedians} : \E c, d \in Cells(BITS) :
        /\ BandIndex(c) = BandIndex(d)
        /\ values[c] = med[BandIndex(c)]
        /\ values[c] > (MAX_BRIGHTNESS * width * height) \div 2
        /\ bits[c] = 1
        /\ values[d] < values[c]
        /\ bits[d] = 0

\* C6 as stated: a cell strictly below the median of its band gets bit 1 and
\* a cell strictly above it gets bit 0.
C6_DarkerGetsOne ==
    pc = "done" =>
        \A med \in {BandMedians} : \A c \in Cells(BITS) :
                /\ values[c] < med[BandIndex(c)] => bits[c] = 1
                /\ values[c] > med[BandIndex(c)] => bits[c] = 0

\* C6 (amended): 1 means brighter than the median of the band: a cell strictly
\* above the median of its band gets bit 1, a cell strictly below it gets bit 0.
C6_BrighterGetsOne ==
    pc = "done" =>
        \A med \in {BandMedians} : \A c \in Cells(BITS) :
                /\ values[c] > med[BandIndex(c)] => bits[c] = 1
                /\ values[c] < med[BandIndex(c)] => bits[c] = 0

\* a band with a cell above and a cell below its median
C6_Witness ==
    /\ pc = "done"
    /\ \E med \in {BandMedians} : \E c, d \in Cells(BITS) :
        /\ BandIndex(c) = BandIndex(d)
        /\ values[c] > med[BandIndex(c)] /\ bits[c] = 1
        /\ values[d] < med[BandIndex(c)] /\ bits[d] = 0

\* C7: the digest has BITS*BITS/8 bytes and the bit of cell i is bit
\* (7 - i mod 8) of byte floor(i / 8).
C7_PackedMsbFirst ==
    pc = "done" =>
        /\ Len(digest) = (BITS * BITS) \div 8
        /\ DOMAIN bits = Cells(BITS)
        /\ \A i \in Cells(BITS) :
            (digest[(i \div 8) + 1] \div Pow2(7 - (i % 8))) % 2 = bits[i]

\* a digest with a byte whose first bit is 1 and whose last bit is 0
C7_Witness ==
    /\ pc = "done"
    /\ \E k \in 1 .. Len(digest) :
        /\ bits[8 * (k - 1)] = 1
        /\ bits[8 * (k - 1) + 7] = 0
        /\ digest[k] >= 128
        /\ digest[k] % 2 = 0

\* C8: blockhash on an image with W, H >= 1 and W < BITS or H < BITS goes
\* through the generic path, uses only indices in 0..BITS*BITS-1 and does
\* not panic.
C8_SmallImagesGenericNoPanic ==
    (entry = "blockhash" /\ Positive /\ (width < BITS \/ height < BITS)) =>
        /\ path = "generic"
        /\ touched \subseteq Cells(BITS)
        /\ pc # "panic"
        /\ pc = "done" => Len(digest) = DIGEST_SIZE(BITS)

\* a digest returned for an image smaller than the grid, after a pixel that
\* reached the last block on both axes and wrote interior cells
C8_Witness ==
    /\ entry = "blockhash" /\ path = "generic" /\ pc = "done"
    /\ width < BITS /\ height < BITS
    /\ col.block_right = BITS /\ row.block_bottom = BITS
    /\ Cardinality(touched) > 4
    /\ Len(digest) = DIGEST_SIZE(BITS)

\* C9: with W, H >= 1 no division or modulo of an aggregation path has a
\* zero divisor.
C9_NoZeroDivisor ==
    Positive => (0 \notin divisors /\ pc # "panic")

\* the aligned path dividing by a block_width of 2, then the scan completed
C9_Witness ==
    /\ Positive /\ path = "aligned" /\ pc = "aggregated"
    /\ width = 2 * BITS
    /\ divisors = {2}

\* the largest unsigned result of a computation on a W x H image
PeakBound(w, h, n) ==
    Max2(2 * MAX_BRIGHTNESS * w * h,
         Max2(MAX_BRIGHTNESS * n * n, n * Max2(w, h)))

\* C10: every accumulator stays at most MAX_BRIGHTNESS * W * H, and every
\* unsigned result (products, sums, the sum of the two middle elements) at
\* most PeakBound; at W = H = 2^16 and BITS = 16 PeakBound is
\* 2 * MAX_BRIGHTNESS * 2^32, below 2^64 since 2 * MAX_BRIGHTNESS <= 2^30.
C10_AccumulatorsBounded ==
    /\ \A c \in Cells(BITS) : values[c] <= MAX_BRIGHTNESS * width * height
    /\ peak <= PeakBound(width, height, BITS)
    /\ 2 * MAX_BRIGHTNESS <= Pow2(30)
    /\ MAX_BRIGHTNESS * 16 * 16 <= Pow2(30)

\* a white cell at the bound, and the sum of two medians at twice the bound
C10_Witness ==
    /\ pc = "done" /\ Positive
    /\ \E c \in Cells(BITS) : values[c] = MAX_BRIGHTNESS * width * height
    /\ peak = 2 * MAX_BRIGHTNESS * width * height

\* s is an initial segment of t
IsPrefix(s, t) ==
    /\ Len(s) <= Len(t)
    /\ \A k \in 1 .. Len(s) : s[k] = t[k]

\* C11: during one computation, on whichever path, the pixel source is asked
\* for coordinates of the image only, in row-major order and without
\* repetition: the reads so far are an initial segment of the row-major scan,
\* as long as the position of the loops says, and once the cells are
\* aggregated they are the whole scan, every coordinate exactly once.
C11_EachPixelReadOnce ==
    /\ IsPrefix(reads, RowMajor(width, height))
    /\ pc = "col" => Len(reads) = y * width + x
    /\ pc \in {"aggregated", "done"} => reads = RowMajor(width, height)

\* a scan completed by the generic path on an image that is not square
C11_Witness ==
    /\ pc = "aggregated" /\ path = "generic"
    /\ width >= 2 /\ height >= 2 /\ width # height
    /\ Len(reads) = width * height
    /\ reads[width + 1] = <<0, 1>>

\* C12: the digest computed a second time from the same image by the same
\* variant is the digest computed the first time.
C12_SameImageSameDigest ==
    (again = "same" /\ pc = "done") => digest = first

\* a second computation finished, with a digest of mixed bits
C12_Witness ==
    /\ again = "same" /\ pc = "done" /\ Positive
    /\ digest = first
    /\ \E i \in DOMAIN digest : digest[i] \notin {0, U8_MAX}

\* C13: the brightness read from a pixel with alpha 0 is MAX_BRIGHTNESS
\* whatever its colour channels, the brightness read from any other pixel is
\* R + G + B, and the image repainted in the colour channels of its alpha-0
\* pixels only has the digest of the image before.
C13_TransparentIsWhite ==
    /\ (pc \in {"row", "col", "aggregated", "done"} /\ reads # <<>>) =>
            LET p == img[reads[Len(reads)]]
            IN  brightness = IF p[4] = 0 THEN 3 * U8_MAX
                             ELSE p[1] + p[2] + p[3]
    /\ (again = "repainted" /\ pc = "done") => digest = first

\* the digest of a repainted image, of mixed bits, after a transparent pixel
\* with other colour channels than before was read
C13_Witness ==
    /\ again = "repainted" /\ pc = "done" /\ Positive
    /\ digest = first
    /\ \E i \in DOMAIN digest : digest[i] \notin {0, U8_MAX}
    /\ \E p \in DOMAIN img : img[p][4] = 0 /\ img[p][1] = 255
    /\ img[reads[Len(reads)]][4] = 0
    /\ brightness = MAX_BRIGHTNESS

\* the text of k characters f
AllF(k) == [j \in 1 .. k |-> CharLowerA + 5]

\* the original statement of C14: the digest of every 1 x 1 image is all
\* one-bits.
C14_OneByOneAllOnes ==
    (pc = "done" /\ width = 1 /\ height = 1) =>
        \A i \in DOMAIN digest : digest[i] = U8_MAX

\* C14: the digest of a 1 x 1 image whose pixel is brighter than half of
\* MAX_BRIGHTNESS is all one-bits at every digest size, of hexadecimal text
\* all f; the digest of a 1 x 1 image whose pixel is not is all zero-bits.
C14_OneByOneBrightAllOnes ==
    (pc = "done" /\ width = 1 /\ height = 1) =>
        /\ Len(digest) = DIGEST_SIZE(BITS)
        /\ IF brightness > MAX_BRIGHTNESS \div 2
           THEN /\ \A i \in DOMAIN digest : digest[i] = U8_MAX
                /\ fmt(digest) = AllF(2 * DIGEST_SIZE(BITS))
           ELSE \A i \in DOMAIN digest : digest[i] = 0

\* the 16-bit digest ffff of a white 1 x 1 image
C14_Witness ==
    /\ pc = "done" /\ width = 1 /\ height = 1 /\ BITS = 4
    /\ brightness = MAX_BRIGHTNESS
    /\ digest = <<U8_MAX, U8_MAX>>
    /\ fmt(digest) = <<102, 102, 102, 102>>

\* every pixel of the image has the brightness of its first pixel
IsUniform == \A c \in DOMAIN img : Brightness(img[c]) = Brightness(img[<<0, 0>>])

\* C15: at every size W, H >= 1 and every variant the digest of the uniformly
\* white image and the digest of the uniformly black image of that size are
\* at Hamming distance N * N; the digest of a uniform image, all of whose
\* cells tie with the median, is all one-bits when its brightness is above
\* half of MAX_BRIGHTNESS and all zero-bits otherwise, so that no two uniform
\* images are further apart.
C15_WhiteBlackMaximal ==
    (pc = "done" /\ Positive) =>
        /\ again = "opposite" =>
            /\ distance(first, digest) = BITS * BITS
            /\ distance(digest, first) = NUM_BLOCKS(BITS)
        /\ IsUniform =>
            IF Brightness(img[<<0, 0>>]) > MAX_BRIGHTNESS \div 2
            THEN \A i \in DOMAIN digest : digest[i] = U8_MAX
            ELSE \A i \in DOMAIN digest : digest[i] = 0

\* the digest of a black image that is not aligned with the grid, computed
\* after the digest of the white image of its size
C15_Witness ==
    /\ pc = "done" /\ Positive /\ path = "generic" /\ width # height
    /\ again = "opposite"
    /\ IsUniform /\ brightness = 0
    /\ first = [i \in 1 .. DIGEST_SIZE(BITS) |-> U8_MAX]
    /\ distance(first, digest) = BITS * BITS

\* bit k of the byte b
BitAt(b, k) == (b \div Pow2(k)) % 2

\* the bit positions at which the digests a and b differ
DifferingBits(a, b) ==
    {ik \in (DOMAIN a) \X (0 .. 7) : BitAt(a[ik[1]], ik[2]) # BitAt(b[ik[1]], ik[2])}

\* C16: the distance between two digests of one variant is the number of bit
\* positions at which they differ, between 0 and 8 times the byte length.
C16_DistanceCountsBits ==
    op \in {"compared", "formatted", "parsed"} =>
        /\ Len(left) = HASH_BYTES(BITS) /\ Len(right) = HASH_BYTES(BITS)
        /\ dist = Cardinality(DifferingBits(left, right))
        /\ 0 <= dist /\ dist <= 8 * Len(left)

\* the digests ff80 and f7c1, at distance 3
C16_Witness ==
    /\ op = "compared"
    /\ left = <<255, 128>> /\ right = <<247, 193>>
    /\ dist = 3

\* C17: the distance from a to b is the distance from b to a.
C17_DistanceSymmetric ==
    op = "compared" => dist = distance(right, left)

\* two digests of which each has one-bits the other has not
C17_Witness ==
    /\ op = "compared"
    /\ \E i \in DOMAIN left : left[i] > right[i]
    /\ \E i \in DOMAIN left : left[i] < right[i]
    /\ dist >= 2 /\ dist = distance(right, left)

\* C18: the distance of two digests is 0 exactly when they are equal, and the
\* distance of a digest to itself is 0.
C18_DistanceZeroIffEqual ==
    op = "compared" =>
        /\ dist = 0 <=> left = right
        /\ distance(left, left) = 0
        /\ distance(right, right) = 0

\* a digest of mixed bits compared with itself
C18_Witness ==
    /\ op = "compared"
    /\ left = right /\ dist = 0
    /\ \E i \in DOMAIN left : left[i] \notin {0, 255}

\* C19: parsing the text of a digest gives the digest back, at every size.
C19_HexRoundTrip ==
    op = "parsed" => parsed = Ok(left)

\* a 144-bit digest parsed back from a text with digits and letters
C19_Witness ==
    /\ op = "parsed" /\ BITS = 12
    /\ parsed = Ok(left)
    /\ \E j \in DOMAIN text : text[j] >= CharLowerA
    /\ \E j \in DOMAIN text : text[j] < CharLowerA

\* the characters 0123456789abcdef, by value
LowerHex == <<48, 49, 50, 51, 52, 53, 54, 55, 56, 57, 97, 98, 99, 100, 101, 102>>

\* C20: the text of a digest of k bytes (k is 2, 8, 18 or 32) has exactly
\* 2k characters, each of 0-9 or a-f, and the characters at 2i and 2i + 1
\* are the high and the low half of byte i.
C20_HexTextShape ==
    op \in {"formatted", "parsed"} =>
        /\ Len(left) \in {2, 8, 18, 32}
        /\ Len(text) = 2 * Len(left)
        /\ \A i \in 0 .. (Len(left) - 1) :
            /\ text[2 * i + 1] = LowerHex[(left[i + 1] \div 16) + 1]
            /\ text[2 * i + 2] = LowerHex[(left[i + 1] % 16) + 1]

\* the text 0a... of a digest whose first byte is 10, padded to two
\* characters, with a letter for a high half further on
C20_Witness ==
    /\ op = "formatted"
    /\ left[1] = 10 /\ text[1] = 48 /\ text[2] = 97
    /\ \E i \in DOMAIN left : left[i] >= 160 /\ text[2 * i - 1] >= 97
    /\ Len(text) = 2 * HASH_BYTES(BITS)

\* the bytes 0-9, a-f, A-F
HexBytes == (48 .. 57) \cup (97 .. 102) \cup (65 .. 70)

\* the text given has the length of the variant and hexadecimal digits only
WellFormed ==
    /\ Len(input) = 2 * HASH_BYTES(BITS)
    /\ \A j \in DOMAIN input : input[j] \in HexBytes

C22_ParseCaseInsensitive ==
    WellFormed =>
        /\ op \in {"read", "shown", "reread"} => parsed # BlockhashParseError
        /\ op \in {"shown", "reread"} => text = Lowercase(input)
        /\ op = "reread" => reparsed = parsed

\* a text with letters of both cases, parsed as its lower case is
C22_Witness ==
    /\ op = "reread" /\ WellFormed
    /\ \E j \in DOMAIN input : input[j] \in 65 .. 70
    /\ \E j \in DOMAIN input : input[j] \in 97 .. 102
    /\ text # input /\ text = Lowercase(input)
    /\ reparsed = parsed /\ parsed = Ok(left)

\* the cells blockhash aggregates on the path it selects
get_values(n, w, h, im) ==
    IF SelectPath(w, h, n) = "aligned" THEN get_values_aligned(n, w, h, im)
    ELSE IF SelectPath(w, h, n) = "larger" THEN get_values_larger(n, w, h, im)
    ELSE get_values_generic(n, w, h, im)

\* the digest blockhash returns for the image im when it runs alone, the
\* cells and the medians computed once
blockhash(n, w, h, im) ==
    CHOOSE d \in
        { Pack(BitsWith(vm[1], n, vm[2], HalfValue(MAX_BRIGHTNESS, w, h)), n) :
            vm \in { <<v, Medians(v, n)>> : v \in {get_values(n, w, h, im)} } } :
        TRUE

\* C23: when two computations on one image, of the same or of different
\* sizes, are interleaved step by step in any order, each returns the digest
\* it returns when it runs alone.
C23_InterleavedRunsIndependent ==
    /\ pc = "done" => digest = blockhash(BITS, width, height, img)
    /\ other.pc = "done" =>
            other.digest = blockhash(other.BITS, width, height, img)

\* a digest of mixed bits returned while the computation of another size is
\* suspended in the middle of its scan
C23_Witness ==
    /\ pc = "done" /\ other.pc = "col"
    /\ BITS # other.BITS
    /\ 0 < Len(other.reads) /\ Len(other.reads) < width * height
    /\ \E i \in DOMAIN digest : digest[i] \notin {0, U8_MAX}
    /\ digest = blockhash(BITS, width, height, img)

\* C24: in the larger and in the generic path the cursors block_right and
\* block_bottom never exceed N, and whenever one of them equals N its weight
\* (weight_right, weight_bottom) is 0 and its index is redirected to 0, so
\* that every contribution made through the redirected index is 0.
C24_PastGridWeightIsZero ==
    (path \in {"larger", "generic"} /\ pc # "panic") =>
        /\ col.block_right <= BITS
        /\ row.block_bottom <= BITS
        /\ col.block_right = BITS =>
            /\ col.weight_right = 0 /\ col.idx_right = 0
            /\ brightness * row.weight_top * col.weight_right = 0
            /\ brightness * row.weight_bottom * col.weight_right = 0
            /\ brightness * height * col.weight_right = 0
        /\ row.block_bottom = BITS =>
            /\ row.weight_bottom = 0 /\ row.idx_bottom = 0
            /\ brightness * row.weight_bottom * col.weight_left = 0
            /\ brightness * row.weight_bottom * width = 0

\* the last pixel of an image larger than the grid, both cursors at N
C24_Witness ==
    /\ path = "larger" /\ pc = "aggregated" /\ entry = "blockhash"
    /\ col.block_right = BITS /\ row.block_bottom = BITS
    /\ col.idx_right = 0 /\ row.idx_bottom = 0
    /\ col.block_left = BITS - 1
    /\ brightness > 0
    /\ touched = {NUM_BLOCKS(BITS) - 1, (BITS - 1) * BITS, BITS - 1, 0}

\* the cells of the 2 x 2 neighbourhood whose first cell is (bx, by)
Neighbourhood(bx, by) == {(by + dy) * BITS + bx + dx : dx \in {0, 1}, dy \in {0, 1}}

\* C25: in the larger path, on an image of W >= N and H >= N, the cursors
\* satisfy block_right in {block_left, block_left + 1} and block_bottom in
\* {block_top, block_top + 1}, the weights weight_left + weight_right = N and
\* weight_top + weight_bottom = N, and the contributions of a pixel add up to
\* brightness * N * N, those that are not 0 falling in one 2 x 2 neighbourhood
\* of cells.
C25_LargerWeightsSumToN ==
    (path = "larger" /\ pc # "panic" /\ width >= BITS /\ height >= BITS) =>
        /\ col.block_right \in {col.block_left, col.block_left + 1}
        /\ row.block_bottom \in {row.block_top, row.block_top + 1}
        /\ col.weight_left + col.weight_right = BITS
        /\ row.weight_top + row.weight_bottom = BITS
        /\ (reads # <<>> /\ touched # {}) =>
            \A cs \in {LargerContribs(row, col, brightness)} :
                /\ touched = Indices(cs)
                /\ Cardinality(touched) <= 4
                /\ SumAmounts(cs, DOMAIN cs) = brightness * BITS * BITS
                /\ \A k \in DOMAIN cs :
                        cs[k][2] > 0 =>
                            cs[k][1] \in Neighbourhood(col.block_left, row.block_top)

\* a pixel of positive brightness split over four cells
C25_Witness ==
    /\ path = "larger" /\ pc = "col" /\ width >= BITS /\ height >= BITS
    /\ reads # <<>> /\ brightness > 0
    /\ Cardinality(touched) = 4
    /\ col.weight_left > 0 /\ col.weight_right > 0
    /\ row.weight_top > 0 /\ row.weight_bottom > 0
    /\ values[row.idx_bottom + col.idx_right]
            >= brightness * row.weight_bottom * col.weight_right

\* the cells of band i
BandCells(i) == {c \in Cells(BITS) : BandIndex(c) = i}

\* the cell values with every band but band i replaced by the values of f
Overwrite(i, f) == [c \in Cells(BITS) |-> IF BandIndex(c) = i THEN values[c] ELSE f[c]]

\* other cell values for the same image size: all 0, all the largest value a
\* cell can take, and the values of the band before
Replacements ==
    { [c \in Cells(BITS) |-> 0],
      [c \in Cells(BITS) |-> MAX_BRIGHTNESS * width * height],
      [c \in Cells(BITS) |->
            values[(c + 3 * BAND_SIZE(BITS)) % NUM_BLOCKS(BITS)]] }

\* C26: the bits of band i depend only on the values of band i and on
\* half_value: with W and H fixed, replacing the values of the other bands
\* leaves the bits of band i as they are.
C26_BandsIndependent ==
    pc = "done" =>
        \A i \in 0 .. 3 : \A f \in Replacements :
            \A v \in {Overwrite(i, f)} :
                \A median \in {Medians(v, BITS)[i]} :
                    \A c \in BandCells(i) :
                        Bit(v[c], median,
                            HalfValue(MAX_BRIGHTNESS, width, height)) = bits[c]

\* a digest whose bands have different medians, band 0 holding both bits
C26_Witness ==
    /\ pc = "done"
    /\ \E median \in {Medians(values, BITS)} :
            /\ median[0] # median[1]
            /\ median[1] # median[3]
            /\ median[0] > 0
    /\ {bits[c] : c \in BandCells(0)} = {0, 1}
    /\ {bits[c] : c \in BandCells(3)} = {0, 1}

\* the number of one-bits of band i
Ones(i) == Cardinality({c \in BandCells(i) : bits[c] = 1})

\* C29: in every band at most half of the cells (N * N / 8) have a value
\* strictly greater than the median of the band; a band whose median is at
\* most half_value has at most N * N / 8 one-bits and a band whose median is
\* greater than half_value has at least N * N / 8 one-bits.
C29_HalfAboveMedian ==
    pc = "done" =>
        \A median \in {Medians(values, BITS)} : \A i \in 0 .. 3 :
            /\ Cardinality({c \in BandCells(i) : values[c] > median[i]})
                    <= NUM_BLOCKS(BITS) \div 8
            /\ median[i] <= HalfValue(MAX_BRIGHTNESS, width, height) =>
                    Ones(i) <= NUM_BLOCKS(BITS) \div 8
            /\ median[i] > HalfValue(MAX_BRIGHTNESS, width, height) =>
                    Ones(i) >= NUM_BLOCKS(BITS) \div 8

\* a dark band with fewer and a bright band with more one-bits than half
C29_Witness ==
    /\ pc = "done" /\ Positive
    /\ \E median \in {Medians(values, BITS)} : \E i, j \in 0 .. 3 :
            /\ median[i] <= HalfValue(MAX_BRIGHTNESS, width, height)
            /\ Ones(i) < NUM_BLOCKS(BITS) \div 8
            /\ median[j] > HalfValue(MAX_BRIGHTNESS, width, height)
            /\ Ones(j) > NUM_BLOCKS(BITS) \div 8

\* C27: when W divides N and H divides N, every cell (bx, by) holds
\* W * H * brightness(floor(bx * W / N), floor(by * H / N)); the digest of an
\* image of a single row has N identical grid rows of bits.
C27_DividingSizesReplicatePixels ==
    (pc \in {"aggregated", "done"} /\ Positive
        /\ BITS % width = 0 /\ BITS % height = 0) =>
        /\ \A by \in 0 .. (BITS - 1) : \A bx \in 0 .. (BITS - 1) :
                values[by * BITS + bx]
                    = width * height
                        * PixelBrightness(img, (bx * width) \div BITS,
                                          (by * height) \div BITS)
        /\ (pc = "done" /\ height = 1) =>
                \A by \in 0 .. (BITS - 1) : \A bx \in 0 .. (BITS - 1) :
                    bits[by * BITS + bx] = bits[bx]

\* a single row of two pixels of different brightness, spread over the grid
C27_Witness ==
    /\ pc = "done" /\ path = "generic"
    /\ height = 1 /\ width = 2 /\ BITS = 8
    /\ PixelBrightness(img, 0, 0) > PixelBrightness(img, 1, 0)
    /\ values[0] = 2 * PixelBrightness(img, 0, 0)
    /\ values[BITS * BITS - 1] = 2 * PixelBrightness(img, 1, 0)
    /\ bits[0] = 1 /\ bits[BITS - 1] = 0
    /\ bits[(BITS - 1) * BITS] = 1

\* the sum of the N * N cell values
CellsTotal ==
    SumFn([by \in 0 .. (BITS - 1) |->
            SumFn([bx \in 0 .. (BITS - 1) |-> values[by * BITS + bx]], BITS)],
          BITS)

\* the sum of the brightness of all the pixels
BrightnessTotal ==
    SumFn([yy \in 0 .. (height - 1) |->
            SumFn([xx \in 0 .. (width - 1) |-> PixelBrightness(img, xx, yy)],
                  width)],
          height)

\* C28: in each of the three paths, for W, H >= 1, the sum of the N * N cell
\* values is N * N times the sum of the brightness of all the pixels.
C28_CellsSumToScaledBrightness ==
    (pc = "aggregated" /\ Positive) =>
        CellsTotal = BITS * BITS * BrightnessTotal

\* an image smaller than the grid in one dimension, neither dimension
\* dividing N, with pixels of different brightness
C28_Witness ==
    /\ pc = "aggregated" /\ path = "generic" /\ entry = "blockhash"
    /\ Positive
    /\ BITS % width # 0 /\ width % BITS # 0 /\ BITS % height # 0
    /\ width < BITS \div 2 /\ height < BITS \div 2
    /\ ~ IsUniform
    /\ CellsTotal = BITS * BITS * BrightnessTotal
    /\ CellsTotal > 0

\* C30: for an image of width 0 or height 0, blockhash reads no pixel,
\* divides by no zero and returns the digest of DIGEST_SIZE zero bytes, at
\* every digest size.
C30_EmptyImageZeroDigest ==
    (width = 0 \/ height = 0) =>
        /\ reads = <<>>
        /\ 0 \notin divisors
        /\ pc # "panic"
        /\ pc = "done" => digest = [i \in 1 .. DIGEST_SIZE(BITS) |-> 0]

\* rows of no pixel, all iterated, at the largest digest size
C30_Witness ==
    /\ pc = "done" /\ entry = "blockhash"
    /\ width = 0 /\ height = 3 /\ y = height
    /\ BITS = 16
    /\ Len(digest) = 32 /\ \A i \in DOMAIN digest : digest[i] = 0
    /\ reads = <<>>

====
